---- MODULE Spec2Model ----
(***************************************************************************)
(* Ethnic conflict analysis: the panel preprocessor                        *)
(* (src/src/data_processing.py, load_and_preprocess_data), the model       *)
(* builder (src/src/modeling.py, build_statistical_models) and the         *)
(* pipeline that calls them (src/main.py, main).                           *)
(*                                                                         *)
(* A data frame is a sequence of rows; the position of a row is its index  *)
(* label (pd.read_csv gives a RangeIndex).  A row is a function from the   *)
(* column names it has to cells.  A cell is a number, the missing marker   *)
(* NaN, or a text (a sequence of one-character strings).                   *)
(***************************************************************************)
EXTENDS Integers, Sequences, FiniteSets, TLC

VARIABLES
    config,           \* the values of config.py
    raw,              \* the frame as pd.read_csv(file_path) returned it
    started,          \* the stages main has announced, in order
    previous,         \* what an earlier call of build_statistical_models returned
    pc,               \* position of the program
    exc,              \* the exception that ended the run, "none" otherwise
    df,               \* the data frame of load_and_preprocess_data
    grouped,          \* df.sort_values(...): the index labels in sorted order
    lag_year,         \* loop variable of the lag loop
    mle,              \* the fits made so far: formula, method and what the fit did
    attempts,         \* methods tried by the selection loop, in order
    best_method,
    best_convergence,
    best_result,
    results,          \* the dict returned by build_statistical_models
    printed           \* the diagnostic line printed after the selection

prepVars == <<df, grouped, lag_year>>
fitVars == <<mle, attempts, best_method, best_convergence, best_result, results, printed>>
vars == <<config, raw, started, previous, pc, exc, df, grouped, lag_year, mle, attempts, best_method,
          best_convergence, best_result, results, printed>>

----------------------------------------------------------------------------
(* Bounds of the model.                                                    *)

\* Largest number of rows of the frames drawn for the lag construction.
MaxRows == 3

\* The (gwgroupid, countries_gwid) pairs of the rows drawn.
EntityPairs == {<<1, 12>>, <<11, 2>>}

\* The years of the rows drawn: 2000-2001 are contiguous, 2001-2003 is a gap.
Years == {2000, 2001, 2003}

\* The years of the five-row single-entity frames: consecutive years, the
\* same years out of order, and years with gaps.
ExampleYears == <<2000, 2001, 2002, 2003, 2004>>
ExampleYearLists == {ExampleYears,
                     <<2003, 2000, 2004, 2002, 2001>>,
                     <<2000, 2001, 2003, 2004, 2006>>}

\* The status ranks drawn (ordinal 1-7).
StatusRanks == 1..7

----------------------------------------------------------------------------
(* Cells.                                                                  *)

Num(n) == [n |-> n]
NaN == [nan |-> TRUE]
Txt(t) == [s |-> t]

IsNum(c) == DOMAIN c = {"n"}
IsNaN(c) == DOMAIN c = {"nan"}
IsTxt(c) == DOMAIN c = {"s"}

\* The characters that occur in the texts of the model, in code point order.
CharOrder == <<".", "0", "1", "2", "3", "4", "5", "6", "7", "8", "9", "_", "a", "n", "x">>

CharCode(ch) == CHOOSE i \in 1..Len(CharOrder) : CharOrder[i] = ch

Digits == <<"0", "1", "2", "3", "4", "5", "6", "7", "8", "9">>

\* str(n) for a non-negative integer.
RECURSIVE IntToStr(_)
IntToStr(n) ==
    IF n < 10 THEN <<Digits[n + 1]>>
    ELSE IntToStr(n \div 10) \o <<Digits[(n % 10) + 1]>>

\* Python's comparison of two str values (lexicographic by code point).
RECURSIVE StrLess(_, _)
StrLess(a, b) ==
    IF b = <<>> THEN FALSE
    ELSE IF a = <<>> THEN TRUE
    ELSE IF Head(a) = Head(b) THEN StrLess(Tail(a), Tail(b))
    ELSE CharCode(Head(a)) < CharCode(Head(b))

----------------------------------------------------------------------------
(* Columns.                                                                *)

RawColumns == {"gwgroupid", "countries_gwid", "year", "status_pwrrank",
               "geo_concentrated", "upgraded10", "incidence_flag",
               "incidence_terr_flag", "incidence_gov_flag"}

\* The list of the coercion loop without the two covariates.
numeric_cols_without_covariates ==
    <<"year", "status_pwrrank", "incidence_flag", "incidence_terr_flag",
      "incidence_gov_flag">>

numeric_cols == <<"year", "status_pwrrank", "upgraded10", "geo_concentrated",
                  "incidence_flag", "incidence_terr_flag", "incidence_gov_flag">>

Labels(frame) == 1..Len(frame)
Columns(frame) == DOMAIN frame[1]
HasColumn(frame, col) == col \in Columns(frame)

\* A column read by pd.read_csv holds floats when it is numeric and has a
\* missing value, and is of dtype object when it holds a text.
IsObjectColumn(frame, col) == \E i \in Labels(frame) : IsTxt(frame[i][col])
IsFloatColumn(frame, col) ==
    /\ ~IsObjectColumn(frame, col)
    /\ \E i \in Labels(frame) : IsNaN(frame[i][col])

\* df[col] = values: the column is added, or replaced when it exists.
SetColumn(frame, col, values) ==
    [i \in Labels(frame) |->
        [c \in Columns(frame) \cup {col} |->
            IF c = col THEN values[i] ELSE frame[i][c]]]

MkRow(g, c, y, st, geo, upg, f, ft, fg) ==
    [col \in RawColumns |->
        CASE col = "gwgroupid" -> g
          [] col = "countries_gwid" -> c
          [] col = "year" -> y
          [] col = "status_pwrrank" -> st
          [] col = "geo_concentrated" -> geo
          [] col = "upgraded10" -> upg
          [] col = "incidence_flag" -> f
          [] col = "incidence_terr_flag" -> ft
          [] col = "incidence_gov_flag" -> fg]

----------------------------------------------------------------------------
(* load_and_preprocess_data: the elementwise computations.                 *)

\* The configured values (config.py).  load_and_preprocess_data does not
\* import them: it writes 3 and [1, 2, 3] itself.
EXCLUDED_THRESHOLD == 3
LAG_YEARS == <<1, 2, 3>>

\* config.py as it is, and config.py edited to other values.
DefaultConfig == [EXCLUDED_THRESHOLD |-> EXCLUDED_THRESHOLD, LAG_YEARS |-> LAG_YEARS]

Configs == {DefaultConfig,
            [EXCLUDED_THRESHOLD |-> 4, LAG_YEARS |-> <<1, 2, 3>>],
            [EXCLUDED_THRESHOLD |-> 3, LAG_YEARS |-> <<1, 2>>]}

\* (df['status_pwrrank'] <= 3).astype(int), one element of a numeric column:
\* a comparison with a missing value is False.
\* The comparison with < in place of <=.
ExcludedOfStrict(cell) == IF IsNum(cell) /\ cell.n < 3 THEN 1 ELSE 0

ExcludedOf(cell) == IF IsNum(cell) /\ cell.n <= 3 THEN 1 ELSE 0

\* df[col] == 1, one element: False for a missing value and for a text.
EqualsOne(cell) == IsNum(cell) /\ cell.n = 1

\* ((incidence_flag == 1) | (incidence_terr_flag == 1) | (incidence_gov_flag == 1)).astype(int)
AnyConflictOf(row) ==
    IF \/ EqualsOne(row["incidence_flag"])
       \/ EqualsOne(row["incidence_terr_flag"])
       \/ EqualsOne(row["incidence_gov_flag"])
    THEN 1 ELSE 0

\* df[col].astype(str), one element.
AsTypeStr(frame, col, i) ==
    LET cell == frame[i][col] IN
    IF IsTxt(cell) THEN cell.s
    ELSE IF IsNaN(cell) THEN <<"n", "a", "n">>
    ELSE IF IsFloatColumn(frame, col) THEN IntToStr(cell.n) \o <<".", "0">>
    ELSE IntToStr(cell.n)

\* df['gwgroupid'].astype(str) + "_" + df['countries_gwid'].astype(str)
GroupCountryIdOf(frame, i) ==
    AsTypeStr(frame, "gwgroupid", i) \o <<"_">> \o AsTypeStr(frame, "countries_gwid", i)

IsDigit(ch) == \E d \in 1..Len(Digits) : Digits[d] = ch
DigitValue(ch) == (CHOOSE d \in 1..Len(Digits) : Digits[d] = ch) - 1

RECURSIVE ParseDigits(_, _)
ParseDigits(t, acc) ==
    IF t = <<>> THEN acc ELSE ParseDigits(Tail(t), acc * 10 + DigitValue(Head(t)))

\* pd.to_numeric(..., errors='coerce'), one element: a text of digits becomes
\* its number, any other text becomes the missing marker.
ToNumeric(cell) ==
    IF ~IsTxt(cell) THEN cell
    ELSE IF cell.s # <<>> /\ \A p \in 1..Len(cell.s) : IsDigit(cell.s[p])
         THEN Num(ParseDigits(cell.s, 0))
         ELSE NaN

CoerceRow(row) ==
    [c \in DOMAIN row |->
        IF \E p \in 1..Len(numeric_cols) : numeric_cols[p] = c
        THEN ToNumeric(row[c]) ELSE row[c]]

----------------------------------------------------------------------------
(* load_and_preprocess_data: the sort and the group-wise shift.            *)

\* Ascending order of the year column: missing values sort last.
YearLess(a, b) == IsNum(a) /\ (IsNaN(b) \/ (IsNum(b) /\ a.n < b.n))

\* The order of a sort by group_country_id alone.
RowLessKeyOnly(frame, i, j) ==
    StrLess(frame[i]["group_country_id"].s, frame[j]["group_country_id"].s)

\* The order of sort_values(['group_country_id', 'year']) on two rows.
RowLess(frame, i, j) ==
    LET gi == frame[i]["group_country_id"].s
        gj == frame[j]["group_country_id"].s
    IN  \/ StrLess(gi, gj)
        \/ gi = gj /\ YearLess(frame[i]["year"], frame[j]["year"])

RECURSIVE Insert(_, _, _)
Insert(frame, sorted, l) ==
    IF sorted = <<>> THEN <<l>>
    ELSE IF RowLess(frame, l, Head(sorted)) THEN <<l>> \o sorted
    ELSE <<Head(sorted)>> \o Insert(frame, Tail(sorted), l)

RECURSIVE SortLabels(_, _)
SortLabels(frame, n) ==
    IF n = 0 THEN <<>> ELSE Insert(frame, SortLabels(frame, n - 1), n)

\* df.sort_values(['group_country_id', 'year']): the index labels of df in
\* sorted order; rows with equal keys keep their order (a stable sort).
SortValues(frame) == SortLabels(frame, Len(frame))

\* The labels of one group of grouped.groupby('group_country_id'), in the
\* order of the sorted frame.
GroupOf(frame, order, key) ==
    SelectSeq(order, LAMBDA l : frame[l]["group_country_id"] = key)

PositionIn(seq, l) == CHOOSE p \in 1..Len(seq) : seq[p] = l

\* The shift of the sorted frame without the groupby.
ShiftedUngrouped(frame, order, l, h) ==
    LET p == PositionIn(order, l)
    IN  IF p + h <= Len(order) THEN frame[order[p + h]]["any_conflict"] ELSE NaN

\* The group-wise shift in the other direction, shift(h).
ShiftedBackward(frame, order, l, h) ==
    LET g == GroupOf(frame, order, frame[l]["group_country_id"])
        p == PositionIn(g, l)
    IN  IF p - h >= 1 THEN frame[g[p - h]]["any_conflict"] ELSE NaN

\* grouped.groupby('group_country_id')['any_conflict'].shift(-h), the element
\* with index label l: the value h positions later in l's group, missing
\* when the group has no such position.
Shifted(frame, order, l, h) ==
    LET g == GroupOf(frame, order, frame[l]["group_country_id"])
        p == PositionIn(g, l)
    IN  IF p + h <= Len(g) THEN frame[g[p + h]]["any_conflict"] ELSE NaN

\* The element of the shifted series that is stored in the row with
\* position l when the series is given its sorted position instead.
AlignByPosition(order, l) == order[l]

\* df[col] = series: the assignment aligns on the index, so the row with
\* index label l gets the element of the series with label l.
AlignByLabel(order, l) == l

\* .fillna(0)
FillNa(cell) == IF IsNaN(cell) THEN Num(0) ELSE cell

FutureColumn(h) ==
    CASE h = 1 -> "future_conflict_1yr"
      [] h = 2 -> "future_conflict_2yr"
      [] h = 3 -> "future_conflict_3yr"

\* The horizons of the lag loop, as written in the loop header.
lag_years == <<1, 2, 3>>

----------------------------------------------------------------------------
(* The frames read by pd.read_csv.                                         *)

FixedCell == Num(0)

\* A row of the frames drawn for the lag construction: the entity, the year
\* and one conflict flag vary.
LagRow(e, y, f) ==
    MkRow(Num(e[1]), Num(e[2]), Num(y), Num(4), FixedCell, FixedCell,
          Num(f), FixedCell, FixedCell)

LagRows == {LagRow(e, y, f) : e \in EntityPairs, y \in Years, f \in {0, 1}}

LagFrames == UNION {[1..n -> LagRows] : n \in 1..MaxRows}

\* One entity observed in five years, every conflict history.
ExampleFrames ==
    {[i \in 1..Len(ys) |-> LagRow(<<1, 12>>, ys[i], h[i])] :
        ys \in ExampleYearLists, h \in [1..Len(ExampleYears) -> {0, 1}]}

\* One-row frames for the indicators: every status rank and every
\* combination of the three flags, missing values included.
StatusCells == {Num(r) : r \in StatusRanks} \cup {NaN}
FlagCells == {Num(0), Num(1), NaN}

IndicatorFrames ==
    {<<MkRow(Num(1), Num(12), Num(2000), st, FixedCell, FixedCell, f, ft, fg)>> :
        st \in StatusCells, f \in FlagCells, ft \in FlagCells, fg \in FlagCells}

\* Two-row frames with one of the numeric columns read as text (dtype
\* object): its second cell is not a number, its first cell is the text of
\* a number or is missing.
TextCells == {Txt(<<"0">>), Txt(<<"1">>), NaN}

TextFrame(col, cell) ==
    <<[LagRow(<<1, 12>>, 2000, 0) EXCEPT ![col] = cell],
      [LagRow(<<1, 12>>, 2001, 0) EXCEPT ![col] = Txt(<<"x">>)]>>

TextFrames ==
    {TextFrame(numeric_cols[p], cell) : p \in 1..Len(numeric_cols), cell \in TextCells}

\* Three-row frames whose identifier columns are read as text: the
\* identifiers of the first two rows vary, the third row makes both columns
\* of dtype object.
GroupIdTexts == {<<"1">>, <<"1", "_", "2">>}
CountryIdTexts == {<<"3">>, <<"2", "_", "3">>}

IdRow(g, c, y) == [LagRow(<<1, 12>>, y, 0) EXCEPT !["gwgroupid"] = Txt(g),
                                                 !["countries_gwid"] = Txt(c)]

IdFrames ==
    {<<IdRow(g1, c1, 2000), IdRow(g2, c2, 2001),
       IdRow(<<"1", "_", "2">>, <<"2", "_", "3">>, 2002)>> :
        g1 \in GroupIdTexts, c1 \in CountryIdTexts,
        g2 \in GroupIdTexts, c2 \in CountryIdTexts}

\* A two-row frame, and the same frame read from a file that lacks one of
\* the columns.
CleanFrame == <<LagRow(<<1, 12>>, 2000, 1), LagRow(<<11, 2>>, 2001, 0)>>

WithoutColumn(frame, col) ==
    [i \in Labels(frame) |-> [c \in Columns(frame) \ {col} |-> frame[i][c]]]

MissingFrames == {WithoutColumn(CleanFrame, col) : col \in RawColumns}

InputFrames ==
    LagFrames \cup ExampleFrames \cup IndicatorFrames \cup TextFrames
        \cup IdFrames \cup MissingFrames

----------------------------------------------------------------------------
(* load_and_preprocess_data, statement by statement.                       *)

Raise(e) == /\ pc' = "raised"
            /\ exc' = e

\* df['excluded'] = (df['status_pwrrank'] <= 3).astype(int)
Excluded ==
    /\ pc = "excluded"
    /\ IF ~HasColumn(df, "status_pwrrank")
       THEN Raise("KeyError") /\ UNCHANGED df
       ELSE IF IsObjectColumn(df, "status_pwrrank")
       THEN Raise("TypeError") /\ UNCHANGED df
       ELSE /\ df' = SetColumn(df, "excluded",
                        [i \in Labels(df) |-> Num(ExcludedOf(df[i]["status_pwrrank"]))])
            /\ pc' = "any_conflict"
            /\ UNCHANGED exc
    /\ UNCHANGED <<config, raw, previous, started, grouped, lag_year, fitVars>>

\* df['any_conflict'] = (... | ... | ...).astype(int)
AnyConflict ==
    /\ pc = "any_conflict"
    /\ IF ~({"incidence_flag", "incidence_terr_flag", "incidence_gov_flag"}
                \subseteq Columns(df))
       THEN Raise("KeyError") /\ UNCHANGED df
       ELSE /\ df' = SetColumn(df, "any_conflict",
                        [i \in Labels(df) |-> Num(AnyConflictOf(df[i]))])
            /\ pc' = "group_country_id"
            /\ UNCHANGED exc
    /\ UNCHANGED <<config, raw, previous, started, grouped, lag_year, fitVars>>

\* df['group_country_id'] = df['gwgroupid'].astype(str) + "_" + ...
GroupCountryId ==
    /\ pc = "group_country_id"
    /\ IF ~({"gwgroupid", "countries_gwid"} \subseteq Columns(df))
       THEN Raise("KeyError") /\ UNCHANGED df
       ELSE /\ df' = SetColumn(df, "group_country_id",
                        [i \in Labels(df) |-> Txt(GroupCountryIdOf(df, i))])
            /\ pc' = "to_numeric"
            /\ UNCHANGED exc
    /\ UNCHANGED <<config, raw, previous, started, grouped, lag_year, fitVars>>

\* for col in numeric_cols: df[col] = pd.to_numeric(df[col], errors='coerce')
CoerceNumeric ==
    /\ pc = "to_numeric"
    /\ IF \E p \in 1..Len(numeric_cols) : ~HasColumn(df, numeric_cols[p])
       THEN Raise("KeyError") /\ UNCHANGED df
       ELSE /\ df' = [i \in Labels(df) |-> CoerceRow(df[i])]
            /\ pc' = "sort_values"
            /\ UNCHANGED exc
    /\ UNCHANGED <<config, raw, previous, started, grouped, lag_year, fitVars>>

\* grouped = df.sort_values(['group_country_id', 'year']).  grouped keeps the
\* index labels; the columns read through it later (group_country_id,
\* any_conflict) are not assigned again after this statement.
SortStep ==
    /\ pc = "sort_values"
    /\ grouped' = SortValues(df)
    /\ lag_year' = 1
    /\ pc' = "lag"
    /\ UNCHANGED <<config, raw, previous, started, exc, df, fitVars>>

\* One iteration of `for lag_year in [1, 2, 3]`: the shifted column is
\* assigned by index label, its missing values are filled with 0 and it is
\* cast to int.  After the last iteration the function returns df.
FutureConflict ==
    /\ pc = "lag"
    /\ LET h == lag_years[lag_year] IN
        df' = SetColumn(df, FutureColumn(h),
                  [l \in Labels(df) |->
                      FillNa(Shifted(df, grouped, AlignByLabel(grouped, l), h))])
    /\ IF lag_year < Len(lag_years)
       THEN lag_year' = lag_year + 1 /\ pc' = "lag"
       ELSE lag_year' = lag_year /\ pc' = "preprocessed"
    /\ UNCHANGED <<config, raw, previous, started, exc, grouped, fitVars>>

----------------------------------------------------------------------------
(* build_statistical_models: formulas, optimizers and fitted models.       *)

\* The optimizers in the order of the dict optimization_methods (each with
\* maxiter 1000).
optimization_methods == <<"bfgs", "newton", "lbfgs">>

\* The formulas with the formula of model2 written for model1 as well.
core_formulas_model1_copied == <<
    "any_conflict ~ excluded + geo_concentrated + upgraded10",
    "any_conflict ~ excluded + geo_concentrated + upgraded10",
    "any_conflict ~ excluded + geo_concentrated + upgraded10 + excluded:geo_concentrated",
    "any_conflict ~ excluded + geo_concentrated + upgraded10 + excluded:upgraded10",
    "any_conflict ~ excluded + geo_concentrated + upgraded10 + excluded:geo_concentrated + excluded:upgraded10" >>

\* The formulas of model1..model5.
core_formulas == <<
    "any_conflict ~ excluded",
    "any_conflict ~ excluded + geo_concentrated + upgraded10",
    "any_conflict ~ excluded + geo_concentrated + upgraded10 + excluded:geo_concentrated",
    "any_conflict ~ excluded + geo_concentrated + upgraded10 + excluded:upgraded10",
    "any_conflict ~ excluded + geo_concentrated + upgraded10 + excluded:geo_concentrated + excluded:upgraded10" >>

\* The formula the selection loop fits.
formula ==
    "any_conflict ~ excluded + geo_concentrated + upgraded10 + excluded:geo_concentrated + excluded:upgraded10"

\* The formulas of model1f and model5f.
future_formulas == <<
    "future_conflict_1yr ~ excluded",
    "future_conflict_1yr ~ excluded + geo_concentrated + upgraded10 + excluded:geo_concentrated + excluded:upgraded10" >>

\* The formulas of model1f..model5f and the column names of the older
\* builder kept in src/output/figures/modeling.py, which main does not
\* import.
figures_future_formulas == <<
    "future_conflict_1yr ~ excluded",
    "future_conflict_1yr ~ excluded + geo_concentrated + upgraded10",
    "future_conflict_1yr ~ excluded + geo_concentrated + upgraded10 + excluded:geo_concentrated",
    "future_conflict_1yr ~ excluded + geo_concentrated + upgraded10 + excluded:upgraded10",
    "future_conflict_1yr ~ excluded + geo_concentrated + upgraded10 + excluded:geo_concentrated + excluded:upgraded10" >>

figures_future_model_names == <<"Model 1F", "Model 2F", "Model 3F", "Model 4F", "Model 5F">>

Methods == {optimization_methods[p] : p \in 1..Len(optimization_methods)}

\* What smf.logit(f, data=df).fit(method=m) can do: raise, return a result
\* whose mle_retvals says converged, or return one that says not converged.
Outcomes == {"raise", "unconverged", "converged"}

\* mle holds one record per (formula, method) pair fitted so far.
Mle(f, m) ==
    LET tried == {t \in mle : t.formula = f /\ t.method = m}
    IN  IF tried = {} THEN "untried" ELSE (CHOOSE t \in tried : TRUE).outcome

Record(f, m, o) == mle \cup {[formula |-> f, method |-> m, outcome |-> o]}

\* The fit is a function of the formula, the data and the method: a pair
\* fitted before gives the same outcome again.
FitOutcomes(f, m) == IF Mle(f, m) = "untried" THEN Outcomes ELSE {Mle(f, m)}

Fitted(f, m, o, cov) ==
    [formula |-> f, method |-> m, converged |-> (o = "converged"), cov_type |-> cov]

\* best_result = None
NoResult == [formula |-> "none", method |-> "none",
             converged |-> FALSE, cov_type |-> "none"]

\* results[key] = value
Put(dict, key, value) ==
    [x \in DOMAIN dict \cup {key} |-> IF x = key THEN value ELSE dict[x]]

ModelKey(k) == CASE k = 1 -> "model1" [] k = 2 -> "model2" [] k = 3 -> "model3"
                 [] k = 4 -> "model4" [] k = 5 -> "model5"

\* The fits made with the default optimizer whatever the selection found.
FitMethodDefault(best) == optimization_methods[1]

\* The keyword arguments of the fits after the selection:
\* optimization_methods[best_method].
FitMethod(best) == best

\* The loop without its `break`.
LoopEndsNoBreak(o, p) == p = Len(optimization_methods)

\* The selection loop is left by `break` on a converged result, or when the
\* dict is exhausted.
LoopEnds(o, p) == o = "converged" \/ p = Len(optimization_methods)

\* A plain `else`: every unconverged result replaces the one kept.
KeepsUnconvergedAlways(kept) == TRUE

\* `elif best_result is None`: an unconverged result is kept only when no
\* result has been kept before.
KeepsUnconverged(kept) == kept = NoResult

\* No call of build_statistical_models has returned yet.
NoPrevious == [run |-> 0, forgot |-> 0, results |-> <<>>]

FitInit ==
    /\ mle = {}
    /\ attempts = <<>>
    /\ best_method = "bfgs"
    /\ best_convergence = FALSE
    /\ best_result = NoResult
    /\ results = <<>>
    /\ printed = [method |-> "none", converged |-> FALSE]

----------------------------------------------------------------------------
(* build_statistical_models, statement by statement.                       *)

\* One iteration of `for method_name, method_params in optimization_methods.items()`.
\* An exception of the fit is caught and the loop continues.
SelectionAttempt ==
    /\ pc = "select"
    /\ LET p == Len(attempts) + 1
           method_name == optimization_methods[p]
       IN  \E o \in FitOutcomes(formula, method_name) :
             /\ mle' = Record(formula, method_name, o)
             /\ attempts' = Append(attempts, method_name)
             /\ IF o = "converged"
                THEN /\ best_method' = method_name
                     /\ best_convergence' = TRUE
                     /\ best_result' = Fitted(formula, method_name, o, "nonrobust")
                ELSE IF o = "unconverged" /\ KeepsUnconverged(best_result)
                THEN /\ best_method' = method_name
                     /\ best_result' = Fitted(formula, method_name, o, "nonrobust")
                     /\ UNCHANGED best_convergence
                ELSE UNCHANGED <<best_method, best_convergence, best_result>>
             /\ pc' = IF LoopEnds(o, p) THEN "print" ELSE "select"
    /\ UNCHANGED <<config, raw, previous, started, exc, prepVars, results, printed>>

\* print(f"... {best_method}, ...: {best_convergence}")
PrintSelection ==
    /\ pc = "print"
    /\ printed' = [method |-> best_method, converged |-> best_convergence]
    /\ pc' = "model1"
    /\ UNCHANGED <<config, raw, previous, started, exc, prepVars, mle, attempts, best_method, best_convergence,
                   best_result, results>>

\* model_k = smf.logit(...); result_k = model_k.fit(**optimization_methods[best_method]);
\* results['model_k'] = result_k.  No handler encloses these statements: an
\* exception of the fit leaves build_statistical_models.
FitCore(k) ==
    /\ pc = ModelKey(k)
    /\ LET m == FitMethod(best_method) IN
       \E o \in FitOutcomes(core_formulas[k], m) :
         /\ mle' = Record(core_formulas[k], m, o)
         /\ IF o = "raise"
            THEN /\ Raise("OptimizerError")
                 /\ UNCHANGED results
            ELSE /\ results' = Put(results, ModelKey(k),
                                   Fitted(core_formulas[k], m, o, "nonrobust"))
                 /\ pc' = IF k < Len(core_formulas) THEN ModelKey(k + 1) ELSE "robust"
                 /\ UNCHANGED exc
    /\ UNCHANGED <<config, raw, previous, started, prepVars, attempts, best_method, best_convergence, best_result, printed>>

\* The refit stored in the place of the default fit of the full spec.
StoreRobustAsModel5(dict, fit) == Put(dict, "model5", fit)

\* results['robust_model5'] = robust_result5
StoreRobust(dict, fit) == Put(dict, "robust_model5", fit)

\* try: robust_result5 = model5.fit(..., cov_type='HC0');
\* results['robust_model5'] = robust_result5; except Exception: print(...)
RobustFit ==
    /\ pc = "robust"
    /\ LET m == FitMethod(best_method) IN
       \E ok \in BOOLEAN :
         results' = IF ok
                    THEN StoreRobust(results,
                             Fitted(core_formulas[5], m, Mle(core_formulas[5], m), "HC0"))
                    ELSE results
    /\ pc' = "panel"
    /\ UNCHANGED <<config, raw, previous, started, exc, prepVars, mle, attempts, best_method, best_convergence,
                   best_result, printed>>

\* formula = 'any_conflict ~ 1 + ... + EntityEffects + TimeEffects'
panel_formula == "any_conflict ~ 1 + excluded + geo_concentrated + excluded:geo_concentrated + EntityEffects + TimeEffects"

\* The key assigned as soon as linearmodels was imported, before the fit.
StorePanelBeforeFit(dict, how, fit) ==
    IF how # "unavailable" THEN Put(dict, "panel_model", fit) ELSE dict

\* results['panel_model'] = panel_results is the statement after the fit:
\* it is reached only when the import, the set_index and the fit went through.
StorePanel(dict, how, fit) ==
    IF how = "fitted" THEN Put(dict, "panel_model", fit) ELSE dict

\* panel_df['entity'] = panel_df['gwgroupid']; panel_df['time'] = panel_df['year']
PanelFrame(frame) ==
    SetColumn(SetColumn(frame, "entity", [i \in Labels(frame) |-> frame[i]["gwgroupid"]]),
              "time", [i \in Labels(frame) |-> frame[i]["year"]])

\* df after the two assignments when panel_df is df itself and not a copy.
DfWithoutCopy(frame) == PanelFrame(frame)

\* panel_df = df.copy(): the assignments go to the copy, and
\* panel_df.set_index(...) returns a new frame; df keeps what it had.
DfAfterPanel(frame) == frame

\* try: from linearmodels.panel import PanelOLS; panel_df = df.copy(); ...;
\* results['panel_model'] = panel_results; except Exception: print(...)
PanelModel ==
    /\ pc = "panel"
    /\ \E how \in {"unavailable", "raise", "fitted"} :
         /\ mle' = Record(panel_formula, "PanelOLS", how)
         /\ results' = StorePanel(results, how,
                                  [formula |-> panel_formula, cov_type |-> "clustered"])
         /\ df' = IF how = "unavailable" THEN df ELSE DfAfterPanel(df)
    /\ pc' = "summary"
    /\ UNCHANGED <<config, raw, previous, started, exc, grouped, lag_year, attempts,
                   best_method, best_convergence, best_result, printed>>

model_names == <<"Model 1", "Model 2", "Model 3", "Model 4", "Model 5">>

\* A table whose columns stand in the reverse order of the list.
SummaryColReversed(fitted, names) ==
    [names |-> names,
     columns |-> [k \in 1..Len(fitted) |-> fitted[Len(fitted) + 1 - k]]]

\* summary_col([result1, ..., result5], model_names=...): one column per
\* result, in the order of the list.
SummaryCol(fitted, names) == [names |-> names, columns |-> fitted]

\* results['summary_table'] = summary_col([result1, ..., result5], ...)
SummaryTable ==
    /\ pc = "summary"
    /\ results' = Put(results, "summary_table",
                      SummaryCol([k \in 1..Len(core_formulas) |-> results[ModelKey(k)]],
                                 model_names))
    /\ pc' = "margins_model1"
    /\ UNCHANGED <<config, raw, previous, started, exc, prepVars, mle, attempts, best_method, best_convergence,
                   best_result, printed>>

\* One iteration of the marginal effects loop over model1 and model5:
\* try: results[f'{model_name}_margins'] = ...get_margeff(...); except: print
Margins(name) ==
    /\ pc = "margins_" \o name
    /\ \E ok \in BOOLEAN :
         results' = IF ok
                    THEN Put(results, name \o "_margins", [of |-> results[name]])
                    ELSE results
    /\ pc' = IF name = "model1" THEN "margins_model5" ELSE "model1f"
    /\ UNCHANGED <<config, raw, previous, started, exc, prepVars, mle, attempts, best_method, best_convergence,
                   best_result, printed>>

FutureKey(k) == IF k = 1 THEN "model1f" ELSE "model5f"

future_model_names == <<"Future Model 1", "Future Model 5">>

\* Step 7 without its try block: the exception leaves the function.
FutureRaisePropagates == "raised"

\* except Exception as e: print(...), and then return results.
FutureRaiseCaught == "returned"

\* The fits of model1f and model5f inside the try block of step 7: an
\* exception ends the block, and the function returns what it has.
FitFuture(k) ==
    /\ pc = FutureKey(k)
    /\ LET m == FitMethod(best_method) IN
       \E o \in FitOutcomes(future_formulas[k], m) :
         /\ mle' = Record(future_formulas[k], m, o)
         /\ IF o = "raise"
            THEN /\ pc' = FutureRaiseCaught
                 /\ UNCHANGED results
            ELSE /\ results' = Put(results, FutureKey(k),
                                   Fitted(future_formulas[k], m, o, "nonrobust"))
                 /\ pc' = IF k = 1 THEN FutureKey(2) ELSE "future_summary"
    /\ UNCHANGED <<config, raw, previous, started, exc, prepVars, attempts, best_method, best_convergence,
                   best_result, printed>>

\* results['future_summary_table'] = summary_col([result1f, result5f], ...);
\* return results
FutureSummary ==
    /\ pc = "future_summary"
    /\ \E ok \in BOOLEAN :
         /\ results' = IF ok
                       THEN Put(results, "future_summary_table",
                                SummaryCol(<<results["model1f"], results["model5f"]>>,
                                           future_model_names))
                       ELSE results
         /\ pc' = IF ok THEN "returned" ELSE FutureRaiseCaught
    /\ UNCHANGED <<config, raw, previous, started, exc, prepVars, mle, attempts, best_method, best_convergence,
                   best_result, printed>>

\* build_statistical_models is called a second time on the same dataset:
\* results, best_method, best_convergence and best_result start afresh
\* (lines 26-39).  The optimizers do again what they did on every formula
\* but the one of spec k, where they may behave differently.
SecondCall ==
    /\ pc \in {"robust", "raised"}
    /\ previous = NoPrevious
    /\ \E k \in 2..Len(core_formulas) :
         /\ previous' = [run |-> 1, forgot |-> k, results |-> results]
         /\ mle' = {t \in mle : t.formula # core_formulas[k]}
    /\ attempts' = <<>>
    /\ best_method' = "bfgs"
    /\ best_convergence' = FALSE
    /\ best_result' = NoResult
    /\ results' = <<>>
    /\ printed' = [method |-> "none", converged |-> FALSE]
    /\ exc' = "none"
    /\ pc' = "select"
    /\ UNCHANGED <<config, raw, started, prepVars>>

----------------------------------------------------------------------------
(* main: the stages of the pipeline.                                       *)

\* The stages in the order main announces and calls them.
stages == <<"preprocess", "descriptive", "visualizations", "models",
            "advanced_visualizations", "interpretation", "answers">>

\* A main that goes on to the next stage after an exception as well.
CompletedOrRaised(p) == p \in {"preprocessed", "raised"}

\* df = load_and_preprocess_data(file_path) stands in no try block: the
\* statements after it run only when the call has returned.
Completed(p) == p = "preprocessed"

\* print("Loading and preprocessing data..."); the call reads the file.
LoadAndPreprocess ==
    /\ pc = "main"
    /\ started' = <<"preprocess">>
    /\ df' = raw
    /\ pc' = "excluded"
    /\ UNCHANGED <<config, raw, previous, exc, grouped, lag_year, fitVars>>

\* A stage that reads df (and the model results) and writes figures or
\* reports: it returns, or an exception leaves main.
ReadingStage(name, next) ==
    /\ started' = Append(started, name)
    /\ \E ok \in BOOLEAN :
         IF ok THEN pc' = next /\ UNCHANGED exc ELSE Raise("Exception")
    /\ UNCHANGED <<config, raw, previous, prepVars, fitVars>>

\* desc_stats = generate_descriptive_stats(df)
GenerateDescriptiveStats ==
    /\ Completed(pc)
    /\ started = <<"preprocess">>
    /\ ReadingStage("descriptive", "visualizations")

\* create_visualizations(df, OUTPUT_FIGURE_PATH)
CreateVisualizations ==
    /\ pc = "visualizations"
    /\ ReadingStage("visualizations", "build")

\* model_results = build_statistical_models(df)
BuildStatisticalModels ==
    /\ pc = "build"
    /\ started' = Append(started, "models")
    /\ pc' = "select"
    /\ UNCHANGED <<config, raw, previous, exc, prepVars, fitVars>>

\* create_advanced_visualizations(df, model_results, OUTPUT_FIGURE_PATH)
CreateAdvancedVisualizations ==
    /\ pc = "returned"
    /\ ReadingStage("advanced_visualizations", "interpretation")

\* interpretation = interpret_improved_results(model_results, df, ...)
InterpretImprovedResults ==
    /\ pc = "interpretation"
    /\ ReadingStage("interpretation", "answers")

\* answers = answer_research_questions(model_results, df, ...); the prints
\* that follow end main.
AnswerResearchQuestions ==
    /\ pc = "answers"
    /\ ReadingStage("answers", "done")

----------------------------------------------------------------------------
(* The preprocessor on every frame drawn.                                  *)

InitPrep ==
    /\ config \in Configs
    /\ pc = "excluded"
    /\ exc = "none"
    /\ df \in InputFrames
    /\ raw = df
    /\ started = <<>>
    /\ previous = NoPrevious
    /\ grouped = <<>>
    /\ lag_year = 0
    /\ FitInit

NextPrep ==
    \/ Excluded
    \/ AnyConflict
    \/ GroupCountryId
    \/ CoerceNumeric
    \/ SortStep
    \/ FutureConflict

SpecPrep == InitPrep /\ [][NextPrep]_vars

----------------------------------------------------------------------------
(* Properties of the preprocessor.                                         *)

Horizons == {1, 2, 3}

Preprocessed == pc = "preprocessed"

\* The rows of the partition of row i: the rows with i's group_country_id.
Partition(i) ==
    {j \in Labels(df) : df[j]["group_country_id"] = df[i]["group_country_id"]}

\* Row j stands before row i when the partition is put in ascending order of
\* year (rows of the same year in the order of the input, missing years last).
StandsBefore(j, i) ==
    LET yj == df[j]["year"]
        yi == df[i]["year"]
    IN  \/ IsNum(yj) /\ IsNum(yi) /\ yj.n < yi.n
        \/ IsNum(yj) /\ IsNaN(yi)
        \/ yj = yi /\ j < i

PlaceInPartition(i) == Cardinality({j \in Partition(i) : StandsBefore(j, i)})

\* The rows that stand h positions after row i in its partition (at most one).
RowsAfter(i, h) ==
    {j \in Partition(i) : PlaceInPartition(j) = PlaceInPartition(i) + h}

\* A column of the frame, and a list of numbers as a column.
ColumnValues(col) == [i \in Labels(df) |-> df[i][col]]

NumColumn(values) == [i \in DOMAIN values |-> Num(values[i])]

\* C1: in the output, future_conflict_h of a row is the any_conflict of the
\* row h positions after it in its own group_country_id partition sorted by
\* year, and 0 when fewer than h rows follow it there; the conflict history
\* [0,1,0,1,0] over 2000..2004 gives the horizon-1 values [1,0,1,0,0].
C1_PositionalShift ==
    Preprocessed =>
        /\ \A i \in Labels(df) : \A h \in Horizons :
              IF RowsAfter(i, h) = {}
              THEN df[i][FutureColumn(h)] = Num(0)
              ELSE \A j \in RowsAfter(i, h) :
                      df[i][FutureColumn(h)] = df[j]["any_conflict"]
        /\ (/\ ColumnValues("year") = NumColumn(ExampleYears)
            /\ Cardinality({df[i]["group_country_id"] : i \in Labels(df)}) = 1
            /\ ColumnValues("any_conflict") = NumColumn(<<0, 1, 0, 1, 0>>))
           => ColumnValues("future_conflict_1yr") = NumColumn(<<1, 0, 1, 0, 0>>)

\* A run whose input lists 2003 before 2001 for one entity: the row of 2001
\* takes the conflict of 2003 (its next row by position), the row of 2003
\* has no row after it and gets 0.
C1_Witness ==
    /\ Preprocessed
    /\ \E i, j \in Labels(df) :
          /\ j < i
          /\ df[i]["group_country_id"] = df[j]["group_country_id"]
          /\ df[i]["year"] = Num(2001)
          /\ df[j]["year"] = Num(2003)
          /\ Cardinality(Partition(i)) = 2
          /\ df[j]["any_conflict"] = Num(1)
          /\ df[i]["future_conflict_1yr"] = Num(1)
          /\ df[j]["future_conflict_1yr"] = Num(0)
          /\ df[i]["future_conflict_2yr"] = Num(0)

\* C2: entity isolation: whatever the order of the input rows, a
\* future_conflict value is 0 or the any_conflict of another row with the
\* same group_country_id.
C2_EntityIsolation ==
    \A i \in Labels(df) : \A h \in Horizons :
        HasColumn(df, FutureColumn(h)) =>
            \/ df[i][FutureColumn(h)] = Num(0)
            \/ \E j \in Partition(i) \ {i} :
                  df[j]["any_conflict"] = df[i][FutureColumn(h)]

\* Rows of two entities interleaved in the input; in the sorted frame the
\* last row of one entity is followed by a conflict row of the other and
\* still gets 0.
C2_Witness ==
    /\ Preprocessed
    /\ Len(df) >= 3
    /\ df[1]["group_country_id"] # df[2]["group_country_id"]
    /\ df[3]["group_country_id"] = df[1]["group_country_id"]
    /\ \E p \in 1..(Len(grouped) - 1) :
          /\ df[grouped[p]]["group_country_id"] # df[grouped[p + 1]]["group_country_id"]
          /\ df[grouped[p + 1]]["any_conflict"] = Num(1)
          /\ df[grouped[p]]["future_conflict_1yr"] = Num(0)
    /\ \E i \in Labels(df) : df[i]["future_conflict_1yr"] = Num(1)

\* The rows of the entity of row i whose year is the year of row i plus h.
RowsOfYearAhead(i, h) ==
    {j \in Partition(i) :
        IsNum(df[j]["year"]) /\ df[j]["year"].n = df[i]["year"].n + h}

\* C3 as stated: future_conflict_h is the any_conflict of the row of the
\* same entity whose year is y+h, and 0 when the entity has no such row
\* (series ended, or a gap in the years).
C3_YearArithmetic ==
    Preprocessed =>
        \A i \in Labels(df) : \A h \in Horizons :
            IsNum(df[i]["year"]) =>
                IF RowsOfYearAhead(i, h) = {}
                THEN df[i][FutureColumn(h)] = Num(0)
                ELSE \E j \in RowsOfYearAhead(i, h) :
                        df[i][FutureColumn(h)] = df[j]["any_conflict"]

\* The entity of row i has exactly one row in each of the years y+1..y+h and
\* no second row in year y.
ConsecutiveYears(i, h) ==
    /\ RowsOfYearAhead(i, 0) = {i}
    /\ \A d \in 1..h : Cardinality(RowsOfYearAhead(i, d)) = 1

\* The other rows of the entity of row i with a year of y or later.
RowsNotEarlier(i) ==
    {j \in Partition(i) \ {i} :
        IsNaN(df[j]["year"]) \/ df[j]["year"].n >= df[i]["year"].n}

\* C3 amended: when the entity has exactly one row in each of the years
\* y..y+h, future_conflict_h is the any_conflict of its row of year y+h;
\* when the entity has fewer than h other rows of year y or later, it is 0.
C3_ConsecutiveYears ==
    Preprocessed =>
        \A i \in Labels(df) : \A h \in Horizons :
            IsNum(df[i]["year"]) =>
                /\ ConsecutiveYears(i, h) =>
                      \A j \in RowsOfYearAhead(i, h) :
                          df[i][FutureColumn(h)] = df[j]["any_conflict"]
                /\ Cardinality(RowsNotEarlier(i)) < h =>
                      df[i][FutureColumn(h)] = Num(0)

\* An entity observed in 2000, 2001 and 2003: horizon 1 at 2000 is the
\* conflict of 2001, horizon 3 at 2003 is 0.
C3_Witness ==
    /\ Preprocessed
    /\ \E i, j, l \in Labels(df) :
          /\ Partition(i) = {i, j, l}
          /\ df[i]["year"] = Num(2000)
          /\ df[j]["year"] = Num(2001)
          /\ df[l]["year"] = Num(2003)
          /\ df[j]["any_conflict"] = Num(1)
          /\ df[i]["future_conflict_1yr"] = Num(1)
          /\ df[l]["future_conflict_1yr"] = Num(0)

\* C9: excluded = 1 exactly when status_pwrrank <= EXCLUDED_THRESHOLD; a
\* rank equal to the threshold gives 1, the threshold plus one gives 0.
C9_ThresholdBoundary ==
    HasColumn(df, "excluded") =>
        \A i \in Labels(df) :
            LET st == df[i]["status_pwrrank"] IN
            /\ df[i]["excluded"] = Num(1)
                  <=> (IsNum(st) /\ st.n <= EXCLUDED_THRESHOLD)
            /\ df[i]["excluded"] \in {Num(0), Num(1)}
            /\ st = Num(EXCLUDED_THRESHOLD) => df[i]["excluded"] = Num(1)
            /\ st = Num(EXCLUDED_THRESHOLD + 1) => df[i]["excluded"] = Num(0)

C9_Witness ==
    /\ Preprocessed
    /\ df[1]["status_pwrrank"] = Num(EXCLUDED_THRESHOLD)
    /\ df[1]["excluded"] = Num(1)

\* C10: in every row of the enriched frame any_conflict = 1 if and only if
\* at least one of the three conflict flags is 1; three flags of 0 give 0.
C10_OrComposition ==
    Preprocessed =>
        \A i \in Labels(df) :
            /\ df[i]["any_conflict"] = Num(1)
                  <=> \E c \in {"incidence_flag", "incidence_terr_flag",
                                "incidence_gov_flag"} : df[i][c] = Num(1)
            /\ df[i]["any_conflict"] \in {Num(0), Num(1)}
            /\ (\A c \in {"incidence_flag", "incidence_terr_flag",
                          "incidence_gov_flag"} : df[i][c] = Num(0))
                  => df[i]["any_conflict"] = Num(0)

\* The derived columns of the frame that hold a future conflict.
FutureColumns == {c \in Columns(df) : \E h \in Horizons : c = FutureColumn(h)}

\* C11: the preprocessor uses the configured values: excluded = 1 exactly
\* when status_pwrrank <= the configured EXCLUDED_THRESHOLD, and the
\* future_conflict columns produced are exactly those of the configured
\* LAG_YEARS, whatever values config.py holds.
C11_ConfiguredValues ==
    Preprocessed =>
        /\ \A i \in Labels(df) :
              df[i]["excluded"] = Num(1)
                  <=> (/\ IsNum(df[i]["status_pwrrank"])
                       /\ df[i]["status_pwrrank"].n <= config.EXCLUDED_THRESHOLD)
        /\ FutureColumns =
              {FutureColumn(config.LAG_YEARS[p]) : p \in 1..Len(config.LAG_YEARS)}

\* C12: the entity key is injective: two rows have the same
\* group_country_id if and only if they have the same gwgroupid and the same
\* countries_gwid, identifiers whose text contains "_" included.
C12_KeyInjective ==
    Preprocessed =>
        \A i, j \in Labels(df) :
            df[i]["group_country_id"] = df[j]["group_country_id"]
                <=> /\ df[i]["gwgroupid"] = df[j]["gwgroupid"]
                    /\ df[i]["countries_gwid"] = df[j]["countries_gwid"]

\* The value h positions after row i in its partition of the output, 0
\* when the partition has no such row.
ValueAhead(i, h) ==
    IF RowsAfter(i, h) = {} THEN Num(0)
    ELSE df[CHOOSE j \in RowsAfter(i, h) : TRUE]["any_conflict"]

\* C13: the output has the rows of the input in the order of the input: row
\* i of the output holds the fields of row i of the input (numeric columns
\* coerced) and the derived fields computed for that row, although the lag
\* step reads a copy sorted by (group_country_id, year).
C13_RowIdentity ==
    Preprocessed =>
        /\ Len(df) = Len(raw)
        /\ \A i \in Labels(df) :
              /\ \A c \in RawColumns : df[i][c] = CoerceRow(raw[i])[c]
              /\ df[i]["excluded"] = Num(ExcludedOf(raw[i]["status_pwrrank"]))
              /\ df[i]["any_conflict"] = Num(AnyConflictOf(raw[i]))
              /\ df[i]["group_country_id"] = Txt(GroupCountryIdOf(raw, i))
              /\ \A h \in Horizons : df[i][FutureColumn(h)] = ValueAhead(i, h)

\* A frame whose sorted copy starts with another row than the input, and
\* whose first row has a conflict one position ahead.
C13_Witness ==
    /\ Preprocessed
    /\ Len(df) = 3
    /\ grouped = <<2, 3, 1>>
    /\ \A i \in Labels(df) : \A c \in RawColumns : df[i][c] = raw[i][c]
    /\ df[2]["future_conflict_1yr"] = Num(1)
    /\ df[3]["any_conflict"] = Num(1)
    /\ df[1]["any_conflict"] = Num(0)

\* The output cell holds the value of the input cell: the same cell, or the
\* number that the input text writes.
SameValue(in, out) ==
    \/ out = in
    \/ IsTxt(in) /\ IsNum(out) /\ out = ToNumeric(in)

\* C14: enrichment is append-only: the output has the columns of the input
\* and the six derived columns, and every cell of an input column keeps its
\* value.
C14_AppendOnly ==
    Preprocessed =>
        /\ Columns(df) = Columns(raw) \cup
              {"excluded", "any_conflict", "group_country_id",
               "future_conflict_1yr", "future_conflict_2yr", "future_conflict_3yr"}
        /\ \A i \in Labels(df) : \A c \in Columns(raw) :
              SameValue(raw[i][c], df[i][c])

\* The required columns that the input does not have.
MissingColumns == RawColumns \ Columns(raw)

\* C16: when one of the nine required columns is absent from the input,
\* load_and_preprocess_data ends in an error (a KeyError) and returns no
\* dataset: it never gets past the statement that reads the column.
C16_MissingColumnFatal ==
    MissingColumns # {} =>
        /\ pc \in {"excluded", "any_conflict", "group_country_id", "to_numeric", "raised"}
        /\ pc = "any_conflict" => "status_pwrrank" \notin MissingColumns
        /\ pc = "group_country_id" =>
              MissingColumns \subseteq {"gwgroupid", "countries_gwid", "year",
                                        "geo_concentrated", "upgraded10"}
        /\ pc = "to_numeric" =>
              MissingColumns \subseteq {"year", "geo_concentrated", "upgraded10"}
        /\ pc = "raised" => exc = "KeyError"

\* The input lacks upgraded10, which only the coercion loop reads: the run
\* ends there, after three derived columns were built.
C16_Witness ==
    /\ MissingColumns = {"upgraded10"}
    /\ pc = "raised"
    /\ exc = "KeyError"
    /\ HasColumn(df, "group_country_id")

\* A cell of a numeric column holds a text that is not a number.
NonCoercible ==
    \E i \in Labels(raw) : \E p \in 1..Len(numeric_cols) :
        /\ HasColumn(raw, numeric_cols[p])
        /\ IsTxt(raw[i][numeric_cols[p]])
        /\ IsNaN(ToNumeric(raw[i][numeric_cols[p]]))

\* C17: a value of a numeric column that cannot be coerced to a number makes
\* preprocessing fail with a DataQualityError; no dataset is returned.
C17_NonCoercibleFails ==
    NonCoercible =>
        /\ ~Preprocessed
        /\ pc = "raised" => exc = "DataQualityError"

----------------------------------------------------------------------------
(* The model builder with every behaviour of the optimizers.               *)

InitFit ==
    /\ config = DefaultConfig
    /\ pc = "select"
    /\ exc = "none"
    /\ df = <<>>
    /\ raw = <<>>
    /\ started = <<>>
    /\ previous = NoPrevious
    /\ grouped = <<>>
    /\ lag_year = 0
    /\ FitInit

NextFit ==
    \/ SelectionAttempt
    \/ PrintSelection
    \/ \E k \in 1..Len(core_formulas) : FitCore(k)
    \/ RobustFit
    \/ PanelModel
    \/ SummaryTable
    \/ \E name \in {"model1", "model5"} : Margins(name)
    \/ \E k \in 1..Len(future_formulas) : FitFuture(k)
    \/ FutureSummary

SpecFit == InitFit /\ [][NextFit]_vars

----------------------------------------------------------------------------
(* main on a few input files, with every behaviour of the optimizers.      *)

\* The files of the runs of main: a clean file, a file with a text in a flag
\* column, a file with a text in the status column, and two files that lack
\* a column.
MainFrames ==
    {CleanFrame,
     TextFrame("incidence_gov_flag", Txt(<<"1">>)),
     TextFrame("status_pwrrank", NaN),
     WithoutColumn(CleanFrame, "upgraded10"),
     WithoutColumn(CleanFrame, "status_pwrrank")}

InitMain ==
    /\ config = DefaultConfig
    /\ raw \in MainFrames
    /\ started = <<>>
    /\ previous = NoPrevious
    /\ pc = "main"
    /\ exc = "none"
    /\ df = <<>>
    /\ grouped = <<>>
    /\ lag_year = 0
    /\ FitInit

NextMain ==
    \/ LoadAndPreprocess
    \/ NextPrep
    \/ GenerateDescriptiveStats
    \/ CreateVisualizations
    \/ BuildStatisticalModels
    \/ NextFit
    \/ CreateAdvancedVisualizations
    \/ InterpretImprovedResults
    \/ AnswerResearchQuestions

SpecMain == InitMain /\ [][NextMain]_vars

----------------------------------------------------------------------------
(* Properties of main.                                                     *)

DerivedColumns == {"excluded", "any_conflict", "group_country_id",
                   "future_conflict_1yr", "future_conflict_2yr", "future_conflict_3yr"}

\* df is the dataset load_and_preprocess_data returned.
Enriched == df # <<>> /\ Columns(df) = Columns(raw) \cup DerivedColumns

\* The positions of main inside load_and_preprocess_data.
PrepPositions == {"main", "excluded", "any_conflict", "group_country_id",
                  "to_numeric", "sort_values", "lag"}

\* C15: once load_and_preprocess_data has returned, no step of main
\* (descriptive statistics, visualizations, model building with its panel
\* stage, interpretation) changes the dataset.
C15_DatasetImmutable == [][pc \notin PrepPositions => df' = df]_vars

\* main ran to its end, the panel stage built its frame and fitted, and df
\* has no entity or time column.
C15_Witness ==
    /\ pc = "done"
    /\ started = stages
    /\ "panel_model" \in DOMAIN results
    /\ Enriched
    /\ ~HasColumn(df, "entity")

\* C18: a preprocessing error halts the pipeline: a later stage is started
\* only when load_and_preprocess_data has returned the enriched dataset and
\* the stages start in their order; the fits are made only after model
\* building has started, and the summary table is stored only after the
\* five fits.
C18_PreprocessingErrorHalts ==
    /\ Len(started) <= Len(stages)
    /\ \A p \in 1..Len(started) : started[p] = stages[p]
    /\ Len(started) >= 2 => Enriched
    /\ (pc = "raised" /\ ~Enriched) =>
          (started = <<"preprocess">> /\ mle = {} /\ results = <<>>)
    /\ (mle # {} \/ results # <<>>) => (Len(started) >= 4 /\ Enriched)
    /\ "summary_table" \in DOMAIN results =>
          \A k \in 1..Len(core_formulas) : ModelKey(k) \in DOMAIN results

\* The status column holds a text: the comparison raises inside
\* load_and_preprocess_data and main has started nothing else.
C18_Witness ==
    /\ pc = "raised"
    /\ exc = "TypeError"
    /\ started = <<"preprocess">>
    /\ IsObjectColumn(raw, "status_pwrrank")
    /\ results = <<>>

----------------------------------------------------------------------------
(* Properties of the optimizer selection and of the fits.                  *)

\* What the optimizer did on the formula of the selection loop.
Selection(m) == Mle(formula, m)

Returned == pc = "returned"

Stored(k) == ModelKey(k) \in DOMAIN results

\* C4: the strategies are attempted in the order bfgs, newton, lbfgs; the
\* first one that runs without raising and converges is adopted with
\* converged = True and nothing is attempted after it; when bfgs raises and
\* newton converges, newton is adopted and reported, with converged = True.
C4_FirstConvergedAdopted ==
    /\ \A p \in 1..Len(attempts) : attempts[p] = <<"bfgs", "newton", "lbfgs">>[p]
    /\ \A p \in 1..Len(attempts) :
          Selection(attempts[p]) = "converged" =>
              /\ \A q \in 1..(p - 1) : Selection(attempts[q]) # "converged"
              /\ Len(attempts) = p
              /\ pc # "select"
              /\ best_method = attempts[p]
              /\ best_convergence
              /\ best_result = Fitted(formula, attempts[p], "converged", "nonrobust")
    /\ best_convergence => Selection(best_method) = "converged"
    /\ (pc \notin {"select", "print"}
        /\ Selection("bfgs") = "raise" /\ Selection("newton") = "converged")
          => /\ attempts = <<"bfgs", "newton">>
             /\ best_method = "newton"
             /\ printed = [method |-> "newton", converged |-> TRUE]

\* bfgs raised, newton converged, lbfgs was never run.
C4_Witness ==
    /\ Returned
    /\ Selection("bfgs") = "raise"
    /\ Selection("newton") = "converged"
    /\ Selection("lbfgs") = "untried"
    /\ best_method = "newton"
    /\ best_convergence

NoneConverged == \A p \in 1..Len(attempts) : Selection(attempts[p]) # "converged"

\* C5: when no strategy converges and at least one ran without raising, the
\* first such strategy in list order is retained (a later unconverged one
\* does not replace it) and the reported converged flag is False.
C5_FirstUsableRetained ==
    (pc # "select" /\ NoneConverged) =>
        \A p \in 1..Len(attempts) :
            (/\ Selection(attempts[p]) = "unconverged"
             /\ \A q \in 1..(p - 1) : Selection(attempts[q]) = "raise")
            => /\ best_method = attempts[p]
               /\ best_result = Fitted(formula, attempts[p], "unconverged", "nonrobust")
               /\ ~best_convergence
               /\ pc # "print" => printed = [method |-> attempts[p], converged |-> FALSE]

\* bfgs raised, newton and lbfgs both ran without converging: newton stays.
C5_Witness ==
    /\ Returned
    /\ Selection("bfgs") = "raise"
    /\ Selection("newton") = "unconverged"
    /\ Selection("lbfgs") = "unconverged"
    /\ best_method = "newton"
    /\ ~best_convergence

AllStrategiesRaised == \A m \in Methods : Selection(m) = "raise"

\* C6: when every strategy raises, the fit ends in a ModelFitError (naming
\* the spec and carrying the exceptions); the failure is not skipped.
C6_AllRaiseIsModelFitError ==
    (pc # "select" /\ AllStrategiesRaised) => (pc = "raised" /\ exc = "ModelFitError")

\* The strategies that come before m in list order.
EarlierMethods(m) ==
    {optimization_methods[q] : q \in 1..(PositionIn(optimization_methods, m) - 1)}

Least(S) == CHOOSE p \in S : \A q \in S : p <= q

\* The strategy the fallback procedure yields on the full formula.
SelectedOnFullFormula ==
    LET all == 1..Len(optimization_methods)
        conv == {p \in all : Selection(optimization_methods[p]) = "converged"}
        ran == {p \in all : Selection(optimization_methods[p]) = "unconverged"}
    IN  IF conv # {} THEN optimization_methods[Least(conv)]
        ELSE IF ran # {} THEN optimization_methods[Least(ran)]
        ELSE "bfgs"

RaisedOn(k) == \E m \in Methods : Mle(core_formulas[k], m) = "raise"

\* C8: when the fit of spec 3, and only of spec 3, raises, the run is not
\* aborted: models 1, 2, 4 and 5 and the summary table are returned.
C8_FailureIsolation ==
    (RaisedOn(3) /\ \A k \in {1, 2, 4, 5} : ~RaisedOn(k)) =>
        /\ pc # "raised"
        /\ Returned =>
              {"model1", "model2", "model4", "model5", "summary_table"}
                  \subseteq DOMAIN results

----------------------------------------------------------------------------
(* Two calls of the model builder on the same dataset, up to the five      *)
(* core fits.                                                              *)

NextTwoCalls ==
    \/ SelectionAttempt
    \/ PrintSelection
    \/ \E k \in 1..Len(core_formulas) : FitCore(k)
    \/ SecondCall

SpecTwoCalls == InitFit /\ [][NextTwoCalls]_vars

\* Both calls have made their core fits or have raised.
BothCallsDone == previous.run = 1 /\ pc \in {"robust", "raised"}

\* What a call stored for spec 1, NoResult when it stored nothing.
StoredModel1(dict) == IF "model1" \in DOMAIN dict THEN dict["model1"] ELSE NoResult

NestedFamily(outcome) ==
    LET spec1 == outcome \o " ~ excluded"
        spec2 == spec1 \o " + geo_concentrated + upgraded10"
    IN  <<spec1,
          spec2,
          spec2 \o " + excluded:geo_concentrated",
          spec2 \o " + excluded:upgraded10",
          spec2 \o " + excluded:geo_concentrated + excluded:upgraded10">>

\* The table has one column per spec of the family of the outcome, in the
\* order of the family.
ColumnsAreFamily(table, outcome) ==
    /\ Len(table.columns) = Len(NestedFamily(outcome))
    /\ Len(table.names) = Len(table.columns)
    /\ \A k \in 1..Len(table.columns) :
          table.columns[k].formula = NestedFamily(outcome)[k]

\* C19: for any_conflict the five nested specs are fitted in order and
\* stored as model1..model5, and the k-th column of the summary table,
\* named "Model k", is the stored fit of the k-th spec.
C19_FamilyInOrder ==
    /\ \A k \in 1..5 :
          Stored(k) =>
              /\ results[ModelKey(k)].formula = NestedFamily("any_conflict")[k]
              /\ \A j \in 1..(k - 1) : Stored(j)
    /\ "summary_table" \in DOMAIN results =>
          LET table == results["summary_table"] IN
          /\ ColumnsAreFamily(table, "any_conflict")
          /\ table.names = <<"Model 1", "Model 2", "Model 3", "Model 4", "Model 5">>
          /\ \A k \in 1..5 : table.columns[k] = results[ModelKey(k)]

\* A returned result whose third and fourth columns are the fits of the two
\* single-interaction specs, one converged and one not.
C19_Witness ==
    /\ Returned
    /\ "summary_table" \in DOMAIN results
    /\ results["summary_table"].columns[3] =
          Fitted("any_conflict ~ excluded + geo_concentrated + upgraded10 + excluded:geo_concentrated",
                 "bfgs", "converged", "nonrobust")
    /\ results["summary_table"].columns[4] =
          Fitted("any_conflict ~ excluded + geo_concentrated + upgraded10 + excluded:upgraded10",
                 "bfgs", "unconverged", "nonrobust")

\* C20: for the outcome future_conflict_1yr the builder yields the same
\* family of five nested specs, and the future summary table has one column
\* per spec of the family, in order.
C20_FutureFamily ==
    "future_summary_table" \in DOMAIN results =>
        /\ ColumnsAreFamily(results["future_summary_table"], "future_conflict_1yr")
        /\ \A k \in 1..5 :
              \E key \in DOMAIN results :
                  results[key] = results["future_summary_table"].columns[k]

\* The default fit of the full spec: the selected strategy on the formula
\* of spec 5 with the default covariance.
DefaultFit5 ==
    Fitted(core_formulas[5], FitMethod(best_method),
           Mle(core_formulas[5], FitMethod(best_method)), "nonrobust")

\* The robust refit has been attempted.
AfterRobust == pc \in {"panel", "summary", "margins_model1", "margins_model5",
                       "model1f", "model5f", "future_summary", "returned"}

\* C22: the robust refit is stored under robust_model5 only; once it has been
\* attempted, whether it raised or not, results['model5'] is still the
\* default fit of the full spec, the Model 5 column of the summary table is
\* that default fit, and the five default fits and the summary table are
\* returned.
C22_RobustIsAuxiliary ==
    /\ AfterRobust =>
          /\ \A k \in 1..5 : Stored(k) /\ results[ModelKey(k)].cov_type = "nonrobust"
          /\ results["model5"] = DefaultFit5
          /\ "robust_model5" \in DOMAIN results =>
                results["robust_model5"] = [DefaultFit5 EXCEPT !.cov_type = "HC0"]
    /\ "summary_table" \in DOMAIN results =>
          results["summary_table"].columns[5] = DefaultFit5
    /\ Returned => "summary_table" \in DOMAIN results

\* A returned result with the robust refit beside the default fit of spec 5.
C22_Witness ==
    /\ Returned
    /\ "robust_model5" \in DOMAIN results
    /\ results["robust_model5"].cov_type = "HC0"
    /\ results["model5"].cov_type = "nonrobust"
    /\ results["summary_table"].columns[5] = results["model5"]

\* The core family a call returns: model1..model5 and summary_table.
CoreFamily(dict) ==
    [key \in {"model1", "model2", "model3", "model4", "model5", "summary_table"}
        \cap DOMAIN dict |-> dict[key]]

\* The core family as the selected strategy yields it, with no reference to
\* the panel stage.
ExpectedCoreFamily ==
    LET fit(k) == Fitted(core_formulas[k], FitMethod(best_method),
                         Mle(core_formulas[k], FitMethod(best_method)), "nonrobust")
    IN  [key \in {"model1", "model2", "model3", "model4", "model5", "summary_table"} |->
            IF key = "summary_table"
            THEN [names |-> model_names, columns |-> [k \in 1..5 |-> fit(k)]]
            ELSE fit(CHOOSE k \in 1..5 : ModelKey(k) = key)]

\* C23: the panel stage leaves model1..model5 as they were, whether it was
\* unavailable, raised or succeeded; the call returns the core family that
\* the selected strategy yields on the five formulas; and panel_model is
\* in the results only when the stage fitted the panel model.
C23_PanelStageIsolated ==
    /\ [][pc = "panel" =>
            /\ pc' = "summary"
            /\ CoreFamily(results') = CoreFamily(results)
            /\ "panel_model" \in DOMAIN results' =>
                  results'["panel_model"] = [formula |-> panel_formula, cov_type |-> "clustered"]]_vars
    /\ [](Returned => CoreFamily(results) = ExpectedCoreFamily)
    /\ []("panel_model" \in DOMAIN results <=> Mle(panel_formula, "PanelOLS") = "fitted")

\* A returned result of a call whose panel fit raised.
C23_Witness ==
    /\ Returned
    /\ Mle(panel_formula, "PanelOLS") = "raise"
    /\ "panel_model" \notin DOMAIN results
    /\ "summary_table" \in DOMAIN results
    /\ CoreFamily(results) = ExpectedCoreFamily

\* The positions of step 7, the future-outcome models.
FuturePositions == {"model1f", "model5f", "future_summary"}

\* C25: a step of the future-outcome stage, failing or not, keeps the call
\* going to its normal return, raises nothing and leaves model1..model5
\* and summary_table as they were; the call returns with all six present;
\* and wherever future_summary_table is in the results, model1f and model5f
\* are both there.
C25_FutureFailureContained ==
    /\ [][(pc \in FuturePositions) =>
            (/\ pc' \in FuturePositions \cup {"returned"}
             /\ exc' = "none"
             /\ CoreFamily(results') = CoreFamily(results))]_vars
    /\ [](Returned => CoreFamily(results) = ExpectedCoreFamily)
    /\ []("future_summary_table" \in DOMAIN results =>
              {"model1f", "model5f"} \subseteq DOMAIN results)

\* A returned result of a call whose fit of model5f raised: model1f is there
\* alone, beside the whole current-outcome family.
C25_Witness ==
    /\ Returned
    /\ Mle(future_formulas[2], FitMethod(best_method)) = "raise"
    /\ "model1f" \in DOMAIN results
    /\ "model5f" \notin DOMAIN results
    /\ "future_summary_table" \notin DOMAIN results
    /\ CoreFamily(results) = ExpectedCoreFamily

\* C26: in every row of the returned frame, whatever the raw input (columns
\* read as text and coerced afterwards included), excluded = 1 if and only if
\* the returned status_pwrrank is a number <= 3, and any_conflict = 1 if and
\* only if at least one of the returned conflict flags is 1.
C26_IndicatorsAgreeWithOutput ==
    Preprocessed =>
        \A i \in Labels(df) :
            /\ df[i]["excluded"] = Num(1)
                  <=> (IsNum(df[i]["status_pwrrank"]) /\ df[i]["status_pwrrank"].n <= 3)
            /\ df[i]["any_conflict"] = Num(1)
                  <=> (\/ df[i]["incidence_flag"] = Num(1)
                       \/ df[i]["incidence_terr_flag"] = Num(1)
                       \/ df[i]["incidence_gov_flag"] = Num(1))

\* The keys under which the fits of the two families are stored.
FitKeys == {"model1", "model2", "model3", "model4", "model5", "model1f", "model5f"}

\* C27: the reported diagnostics describe the stored fits: for each stored
\* fit of model1..model5 and of the future models, the optimizer reported
\* as used is the one that produced it, and the reported converged state is
\* true exactly when the run that produced it converged.
C27_DiagnosticsDescribeStoredFits ==
    \A key \in FitKeys \cap DOMAIN results :
        /\ printed.method = results[key].method
        /\ printed.converged <=> results[key].converged

====
